---- MODULE Spec2Model ----
(***************************************************************************)
(* Clinic-scraper classification pipeline.                                 *)
(*                                                                         *)
(*   retry.ts       withRetry, isRateLimitError, extractRetryDelay         *)
(*   classifier.ts  classifySinglePlace, classifyPlaces (p-limit gate,     *)
(*                  Promise.allSettled join, accepted-list aggregation)    *)
(*                                                                         *)
(* Two specifications share the withRetry operators:                       *)
(*   SpecRetry  one call of withRetry with arbitrary options and an        *)
(*              operation that fails a chosen number of times;             *)
(*   Spec       one call of classifyPlaces on a batch of places.           *)
(***************************************************************************)
EXTENDS Integers, Sequences, FiniteSets, TLC

(***************************************************************************)
(* Bounds of the model.                                                    *)
(***************************************************************************)
\* largest maxAttempts option tried in SpecRetry (0 is tried too)
MaxAttemptsBound == 3
\* largest batch handed to classifyPlaces
MaxPlaces == 3
\* largest batch whose units get every response of Contents and ApiErrors;
\* the units of a larger batch get those of BasicContents and BasicApiErrors
MaxPlacesAllResponses == 2
\* largest concurrency limit handed to classifyPlaces
MaxConcurrency == 2

(***************************************************************************)
(* Program constants.                                                      *)
(***************************************************************************)
\* retry.ts DEFAULT_OPTIONS
DefaultMaxAttempts == 3
DefaultBaseDelayMs == 2000
DefaultMaxDelayMs == 60000
\* classifier.ts call site of withRetry
ClassifyMaxAttempts == 5
ClassifyBaseDelayMs == 3000
\* classifier.ts pacing timer
PacingDelayMs == 1500

DEFAULT_OPTIONS ==
    [maxAttempts |-> DefaultMaxAttempts,
     baseDelayMs |-> DefaultBaseDelayMs,
     maxDelayMs  |-> DefaultMaxDelayMs]

\* const opts = { ...DEFAULT_OPTIONS, ...options }
MergeOptions(options) ==
    [k \in DOMAIN DEFAULT_OPTIONS |->
        IF k \in DOMAIN options THEN options[k] ELSE DEFAULT_OPTIONS[k]]

(***************************************************************************)
(* Errors.  An error object has an optional status, an optional            *)
(* errorDetails array, and the number of the invocation that raised it.    *)
(* A detail's retryDelay is a string of seconds ("1.5s"); the model keeps  *)
(* the parsed number of seconds in microseconds.                           *)
(***************************************************************************)
Detail(type, isString, isNaN, micros) ==
    [type |-> type, isString |-> isString, isNaN |-> isNaN, micros |-> micros]

RetryInfo(micros) == Detail("type.googleapis.com/google.rpc.RetryInfo", TRUE, FALSE, micros)
RetryInfoNaN      == Detail("type.googleapis.com/google.rpc.RetryInfo", TRUE, TRUE, 0)
RetryInfoNoString == Detail("type.googleapis.com/google.rpc.RetryInfo", FALSE, FALSE, 0)
OtherDetail       == Detail("type.googleapis.com/google.rpc.ErrorInfo", TRUE, FALSE, 9000000)

Error(name, hasStatus, status, hasDetails, details) ==
    [name |-> name, hasStatus |-> hasStatus, status |-> status,
     hasDetails |-> hasDetails, errorDetails |-> details, id |-> 0]

NoError == Error("none", FALSE, 0, FALSE, << >>)

\* the failures the operation handed to withRetry may raise
RetryErrors ==
    { Error("network",     FALSE, 0,   FALSE, << >>),
      Error("http500",     TRUE,  500, FALSE, << >>),
      Error("rateLimit",   TRUE,  429, FALSE, << >>),
      Error("rateLimit0",  TRUE,  429, TRUE,  << RetryInfo(0) >>),
      Error("rateLimitD",  TRUE,  429, TRUE,
            << OtherDetail, RetryInfoNaN, RetryInfoNoString, RetryInfo(1500400) >>),
      Error("rateLimitBig", TRUE, 429, TRUE,  << RetryInfo(90000000) >>),
      Error("rateLimitNoInfo", TRUE, 429, TRUE, << OtherDetail, RetryInfoNaN >>),
      Error("unavailableD", TRUE, 503, TRUE,  << RetryInfo(7000000) >>) }

\* number | null
Null == [isNull |-> TRUE, ms |-> 0]
Ms(n) == [isNull |-> FALSE, ms |-> n]

\* Math.ceil(seconds * 1000), seconds given in microseconds
CeilMs(micros) == (micros + 999) \div 1000

RECURSIVE FirstRetryDelay(_, _)
FirstRetryDelay(details, i) ==
    IF i > Len(details) THEN Null
    ELSE IF /\ details[i].type = "type.googleapis.com/google.rpc.RetryInfo"
            /\ details[i].isString
            /\ ~details[i].isNaN
         THEN Ms(CeilMs(details[i].micros))
         ELSE FirstRetryDelay(details, i + 1)

extractRetryDelay(error) ==
    IF error.hasDetails THEN FirstRetryDelay(error.errorDetails, 1) ELSE Null

isRateLimitError(error) == error.hasStatus /\ error.status = 429

\* JavaScript truthiness of a number | null
Truthy(d) == ~d.isNull /\ d.ms # 0

Min(a, b) == IF a <= b THEN a ELSE b

\* mutant: the rate-limit path uses the exponent of the generic path
RateLimitDelaySameExponent(opts, attempt, error) ==
    IF Truthy(extractRetryDelay(error))
    THEN extractRetryDelay(error).ms
    ELSE opts.baseDelayMs * (2 ^ (attempt - 1))

\* serverDelay || opts.baseDelayMs * Math.pow(2, attempt)
RateLimitDelay(opts, attempt, error) ==
    IF Truthy(extractRetryDelay(error))
    THEN extractRetryDelay(error).ms
    ELSE opts.baseDelayMs * (2 ^ attempt)

\* mutant: the ceiling is not applied
BackoffDelayUncapped(opts, attempt) ==
    opts.baseDelayMs * (2 ^ (attempt - 1))

\* Math.min(opts.baseDelayMs * Math.pow(2, attempt - 1), opts.maxDelayMs)
BackoffDelay(opts, attempt) ==
    Min(opts.baseDelayMs * (2 ^ (attempt - 1)), opts.maxDelayMs)

ComputeDelay(opts, attempt, error) ==
    IF isRateLimitError(error)
    THEN RateLimitDelay(opts, attempt, error)
    ELSE BackoffDelay(opts, attempt)

(***************************************************************************)
(* withRetry as a state machine over a record:                             *)
(*   pc       "call"       awaiting fn()                                   *)
(*            "wait"       awaiting the backoff timer                      *)
(*            "returned"   returned fn's value                             *)
(*            "thrown"     rethrew fn's error                              *)
(*            "exhausted"  threw "Retry logic exhausted unexpectedly"      *)
(*   attempt  the loop variable                                            *)
(*   calls    invocations of fn so far                                     *)
(*   waits    backoff timers started so far                                *)
(*   warns    warning log lines so far                                     *)
(*   delay    the delay of the timer being awaited                         *)
(*   err      the error caught (in scope until the next iteration)         *)
(*   value    the value returned                                           *)
(***************************************************************************)
NoValue == [kind |-> "none", id |-> 0]

\* mutant: the loop test is attempt < opts.maxAttempts
LoopHeadStrict(r, opts) ==
    IF r.attempt < opts.maxAttempts
    THEN [r EXCEPT !.pc = "call", !.calls = @ + 1]
    ELSE [r EXCEPT !.pc = "exhausted"]

\* for (let attempt = 1; attempt <= opts.maxAttempts; ...) { return await fn()
LoopHead(r, opts) ==
    IF r.attempt <= opts.maxAttempts
    THEN [r EXCEPT !.pc = "call", !.calls = @ + 1]
    ELSE [r EXCEPT !.pc = "exhausted"]

WithRetryEnter(opts) ==
    LoopHead([pc |-> "enter", attempt |-> 1, calls |-> 0, waits |-> 0,
              warns |-> 0, delay |-> 0, err |-> NoError, value |-> NoValue],
             opts)

\* return await fn()  -- fn fulfilled
FnResolves(r, v) == [r EXCEPT !.pc = "returned", !.value = v]

\* mutant: the last attempt throws a new error instead of the one caught
FnRejectsWrapsError(r, opts, e) ==
    IF r.attempt = opts.maxAttempts
    THEN [r EXCEPT !.pc = "thrown",
                   !.err = Error("All attempts failed", FALSE, 0, FALSE, << >>)]
    ELSE [r EXCEPT !.pc = "wait", !.err = e, !.waits = @ + 1, !.warns = @ + 1,
                   !.delay = ComputeDelay(opts, r.attempt, e)]

\* mutant: gives up one attempt early
FnRejectsGivesUpEarly(r, opts, e) ==
    IF r.attempt >= opts.maxAttempts - 1
    THEN [r EXCEPT !.pc = "thrown", !.err = e]
    ELSE [r EXCEPT !.pc = "wait", !.err = e, !.waits = @ + 1, !.warns = @ + 1,
                   !.delay = ComputeDelay(opts, r.attempt, e)]

\* catch (error): last attempt rethrows, otherwise compute the delay and wait
FnRejects(r, opts, e) ==
    IF r.attempt = opts.maxAttempts
    THEN [r EXCEPT !.pc = "thrown", !.err = e]
    ELSE [r EXCEPT !.pc = "wait", !.err = e, !.waits = @ + 1, !.warns = @ + 1,
                   !.delay = ComputeDelay(opts, r.attempt, e)]

\* the backoff timer fires: the catch block ends (error and delay go out of
\* scope), attempt++ and the loop test
TimerFires(r, opts) ==
    LoopHead([r EXCEPT !.attempt = @ + 1, !.err = NoError, !.delay = 0], opts)

Idle == [pc |-> "idle", attempt |-> 0, calls |-> 0, waits |-> 0,
         warns |-> 0, delay |-> 0, err |-> NoError, value |-> NoValue]

(***************************************************************************)
(* State.                                                                  *)
(*   SpecRetry:  r (the withRetry call), ropts (its merged options),       *)
(*               plan (the operation fails on invocations 1..plan)         *)
(*   Spec:       pc, places, concurrency, queue, activeCount, unit,        *)
(*               admitLog, results, accepted;                              *)
(*               given[i] records what the inference endpoint answered to  *)
(*               unit i: how many failing answers, and the parseable       *)
(*               content if one came                                       *)
(***************************************************************************)
VARIABLES r, ropts, plan,
          pc, places, concurrency, queue, activeCount, unit,
          admitLog, results, accepted, given,
          app, fmt, script, settleLog

retryVars == << r, ropts, plan >>
classifyVars == << pc, places, concurrency, queue, activeCount, unit,
                   admitLog, results, accepted, given >>
\* the state of main (app), of one call of formatEgyptianPhone (fmt), the
\* answers planned for a batch (script) and the order its places settled in
mainVars == << app >>
phoneVars == << fmt >>
scriptVars == << script, settleLog >>
auxVars == << app, fmt, script, settleLog >>
vars == << r, ropts, plan, pc, places, concurrency, queue, activeCount, unit,
           admitLog, results, accepted, given, app, fmt, script, settleLog >>

\* main before its first statement
MainInit == [pc |-> "init", serpApiKey |-> FALSE, groqApiKey |-> FALSE,
             concurrency |-> 0, rawPlaces |-> 0, listing |-> "none",
             written |-> "none", exitCode |-> -1]

\* formatEgyptianPhone not called
PhoneInit == [pc |-> "idle", raw |-> << >>, out |-> << >>, isNull |-> FALSE]

Init ==
    /\ r = Idle
    /\ ropts = DEFAULT_OPTIONS
    /\ plan = 0
    /\ pc = "idle"
    /\ places = 0
    /\ concurrency = 1
    /\ queue = << >>
    /\ activeCount = 0
    /\ unit = << >>
    /\ admitLog = << >>
    /\ results = << >>
    /\ accepted = << >>
    /\ given = << >>
    /\ app = MainInit
    /\ fmt = PhoneInit
    /\ script = << >>
    /\ settleLog = << >>

(***************************************************************************)
(* SpecRetry: one call of withRetry.                                       *)
(***************************************************************************)
BaseDelaysTried == {0, 1000, 3000}
MaxDelaysTried == {2500, 60000}

\* the options argument: all fields, maxDelayMs omitted (as both call sites
\* do), or no options at all
RetryOptionsTried ==
    { [maxAttempts |-> m, baseDelayMs |-> b, maxDelayMs |-> x] :
        m \in 0..MaxAttemptsBound, b \in BaseDelaysTried, x \in MaxDelaysTried }
    \cup
    { [maxAttempts |-> m, baseDelayMs |-> b] :
        m \in 0..MaxAttemptsBound, b \in BaseDelaysTried }
    \cup
    { << >> }

\* withRetry(fn, label, options) up to its first await
CallWithRetry(options, k) ==
    /\ r.pc = "idle"
    /\ ropts' = MergeOptions(options)
    /\ plan' = k
    /\ r' = WithRetryEnter(MergeOptions(options))
    /\ UNCHANGED classifyVars

\* fn() fulfils: invocation number r.calls is past the planned failures
OperationResolves ==
    /\ r.pc = "call"
    /\ r.calls > plan
    /\ r' = FnResolves(r, [kind |-> "ok", id |-> r.calls])
    /\ UNCHANGED << ropts, plan >>
    /\ UNCHANGED classifyVars

\* fn() rejects with error e
OperationRejects(e) ==
    /\ r.pc = "call"
    /\ r.calls <= plan
    /\ r' = FnRejects(r, ropts, [e EXCEPT !.id = r.calls])
    /\ UNCHANGED << ropts, plan >>
    /\ UNCHANGED classifyVars

\* setTimeout(resolve, delay) fires
RetryTimerFires ==
    /\ r.pc = "wait"
    /\ r' = TimerFires(r, ropts)
    /\ UNCHANGED << ropts, plan >>
    /\ UNCHANGED classifyVars

NextRetry ==
    \/ \E options \in RetryOptionsTried, k \in 0..MaxAttemptsBound :
          CallWithRetry(options, k) /\ UNCHANGED auxVars
    \/ OperationResolves /\ UNCHANGED auxVars
    \/ \E e \in RetryErrors : OperationRejects(e) /\ UNCHANGED auxVars
    \/ RetryTimerFires /\ UNCHANGED auxVars

SpecRetry == Init /\ [][NextRetry]_vars

(***************************************************************************)
(* C2: for maxAttempts >= 1 and an operation that fails exactly k <        *)
(* maxAttempts times and then succeeds, withRetry returns the value of     *)
(* invocation k+1 after exactly k+1 invocations; it never invokes the      *)
(* operation a (k+2)-th time and never ends in an error.                   *)
(***************************************************************************)
RetryTerminal == r.pc \in {"returned", "thrown", "exhausted"}

C2_ReturnsAfterKPlusOne ==
    (r.pc # "idle" /\ ropts.maxAttempts >= 1 /\ plan < ropts.maxAttempts) =>
        /\ r.calls <= plan + 1
        /\ RetryTerminal => r.pc = "returned"
        /\ r.pc = "returned" =>
              /\ r.calls = plan + 1
              /\ r.value = [kind |-> "ok", id |-> plan + 1]

C2_Witness ==
    /\ r.pc = "returned"
    /\ plan >= 2
    /\ plan = ropts.maxAttempts - 1
    /\ r.calls = plan + 1

(***************************************************************************)
(* C3: for maxAttempts >= 1 and an operation that fails on every           *)
(* invocation, withRetry invokes it exactly maxAttempts times, then        *)
(* rethrows the error of the last invocation (an error the operation       *)
(* raised, carrying the number of that invocation), having started one     *)
(* backoff timer per failure but the last.                                 *)
(***************************************************************************)
C3_ExhaustsThenThrowsLast ==
    (r.pc # "idle" /\ ropts.maxAttempts >= 1 /\ plan >= ropts.maxAttempts) =>
        /\ r.calls <= ropts.maxAttempts
        /\ RetryTerminal => r.pc = "thrown"
        /\ r.pc = "thrown" =>
              /\ r.calls = ropts.maxAttempts
              /\ r.err.id = ropts.maxAttempts
              /\ [r.err EXCEPT !.id = 0] \in RetryErrors
              /\ r.waits = ropts.maxAttempts - 1
        /\ r.pc = "wait" => r.attempt < ropts.maxAttempts

C3_Witness ==
    /\ r.pc = "thrown"
    /\ ropts.maxAttempts >= 2
    /\ plan >= ropts.maxAttempts
    /\ r.calls = ropts.maxAttempts

(***************************************************************************)
(* C4: when a non-final attempt fails with a rate-limit (429) error that   *)
(* carries a provider-suggested delay of d ms (d >= 0), the wait before    *)
(* the next attempt is exactly d.                                          *)
(***************************************************************************)
C4_SuggestedDelayUsed ==
    (/\ r.pc = "wait"
     /\ isRateLimitError(r.err)
     /\ ~extractRetryDelay(r.err).isNull) =>
        r.delay = extractRetryDelay(r.err).ms

(***************************************************************************)
(* C13: after a failed non-final attempt a whose error is not a rate-limit *)
(* error, withRetry waits exactly min(baseDelay * 2^(a-1), maxDelay); the  *)
(* first retry waits baseDelay itself when baseDelay <= maxDelay.          *)
(***************************************************************************)
Waiting == r.pc = "wait"
Suggested == extractRetryDelay(r.err)
Doubled(a) == ropts.baseDelayMs * (2 ^ a)

C13_GenericBackoff ==
    (Waiting /\ ~isRateLimitError(r.err)) =>
        /\ r.delay = IF Doubled(r.attempt - 1) <= ropts.maxDelayMs
                     THEN Doubled(r.attempt - 1)
                     ELSE ropts.maxDelayMs
        /\ (r.attempt = 1 /\ ropts.baseDelayMs <= ropts.maxDelayMs) =>
              r.delay = ropts.baseDelayMs

\* the second retry of a generic failure, capped by the ceiling
C13_Witness ==
    /\ Waiting
    /\ ~isRateLimitError(r.err)
    /\ r.attempt = 2
    /\ r.err.id = 2
    /\ r.delay = ropts.maxDelayMs
    /\ Doubled(1) > ropts.maxDelayMs

(***************************************************************************)
(* C19: every wait that is not a provider-suggested delay is at most       *)
(* maxDelay, on the rate-limit path as on the generic path.                *)
(***************************************************************************)
C19_WaitAtMostMaxDelay ==
    (Waiting /\ ~(isRateLimitError(r.err) /\ Truthy(Suggested))) =>
        r.delay <= ropts.maxDelayMs

(***************************************************************************)
(* C20: after a failed non-final attempt a whose error is a rate-limit     *)
(* (429) error without a provider-suggested delay, withRetry waits         *)
(* baseDelay * 2^a; where baseDelay * 2^(a-1) is within maxDelay that is   *)
(* twice the wait of a generic failure at the same attempt.                *)
(***************************************************************************)
C20_RateLimitExponent ==
    (Waiting /\ isRateLimitError(r.err) /\ Suggested.isNull) =>
        /\ r.delay = Doubled(r.attempt)
        /\ Doubled(r.attempt - 1) <= ropts.maxDelayMs =>
              r.delay = 2 * ComputeDelay(ropts, r.attempt,
                                         Error("network", FALSE, 0, FALSE, << >>))

C20_Witness ==
    /\ Waiting
    /\ isRateLimitError(r.err)
    /\ Suggested.isNull
    /\ r.err.hasDetails
    /\ r.attempt = 2
    /\ r.delay = 4 * ropts.baseDelayMs
    /\ r.delay > 0

(***************************************************************************)
(* C26: the throw after the loop ("Retry logic exhausted unexpectedly") is *)
(* not reached when maxAttempts >= 1; it is reached exactly when           *)
(* maxAttempts < 1, and then fn was never invoked.                         *)
(***************************************************************************)
LoopFellThrough == r.pc = "exhausted"

C26_ExhaustedOnlyWithoutAttempts ==
    /\ LoopFellThrough =>
          /\ ropts.maxAttempts < 1
          /\ r.calls = 0 /\ r.waits = 0 /\ r.attempt = 1
    /\ (r.pc # "idle" /\ ropts.maxAttempts < 1) => LoopFellThrough
    /\ (r.pc # "idle" /\ ropts.maxAttempts >= 1) =>
          /\ r.calls >= 1
          /\ r.pc \in {"call", "wait", "returned", "thrown"}

C26_Witness ==
    /\ LoopFellThrough
    /\ ropts.maxAttempts = 0
    /\ r.calls = 0
    /\ r.err = NoError

(***************************************************************************)
(* classifySinglePlace.  The chat-completion call either rejects with an   *)
(* error or resolves with a message content; the content is one of         *)
(*   "accept"     {"isPrivateClinic": true, ...}                           *)
(*   "reject"     {"isPrivateClinic": false, ...}                          *)
(*   "empty"      no content (replaced by "{}")                            *)
(*   "wrongType"  {"isPrivateClinic": "false", ...}  (a non-empty string)  *)
(*   "null"       the JSON text null                                       *)
(*   "malformed"  not JSON                                                 *)
(* A parsed value keeps whether it is an object and what its               *)
(* isPrivateClinic property is.                                            *)
(***************************************************************************)
Contents == {"accept", "reject", "empty", "wrongType", "null", "malformed"}

NetworkError == Error("network", FALSE, 0, FALSE, << >>)
RateLimitError == Error("rateLimit", TRUE, 429, FALSE, << >>)
SyntaxError == Error("SyntaxError", FALSE, 0, FALSE, << >>)
TypeError == Error("TypeError", FALSE, 0, FALSE, << >>)
ExhaustedError == Error("Retry logic exhausted unexpectedly", FALSE, 0, FALSE, << >>)

\* the errors client.chat.completions.create rejects with
ApiErrors == {NetworkError, RateLimitError}

\* the responses tried on the units of a batch of n places
BasicContents == {"accept", "reject"}
BasicApiErrors == {NetworkError}
ContentsTried(n) == IF n <= MaxPlacesAllResponses THEN Contents ELSE BasicContents
ApiErrorsTried(n) == IF n <= MaxPlacesAllResponses THEN ApiErrors ELSE BasicApiErrors

Parsed(kind, field) == [kind |-> kind, isPrivateClinic |-> field]

\* JSON.parse(text)
JSONParse(text) ==
    CASE text = "accept"    -> [throws |-> FALSE, value |-> Parsed("object", "true")]
      [] text = "reject"    -> [throws |-> FALSE, value |-> Parsed("object", "false")]
      [] text = "{}"        -> [throws |-> FALSE, value |-> Parsed("object", "undefined")]
      [] text = "wrongType" -> [throws |-> FALSE, value |-> Parsed("object", "string")]
      [] text = "null"      -> [throws |-> FALSE, value |-> Parsed("null", "undefined")]
      [] OTHER              -> [throws |-> TRUE,  value |-> Parsed("none", "undefined")]

\* mutant: a body that does not parse is read as the empty object
classifySinglePlaceLenient(content) ==
    LET text == IF content = "empty" THEN "{}" ELSE content
    IN  IF JSONParse(text).throws
        THEN [throws |-> FALSE, value |-> Parsed("object", "undefined")]
        ELSE JSONParse(text)

\* const text = response.choices[0]?.message?.content || "{}";
\* return JSON.parse(text) as ClassificationResult;
classifySinglePlace(content) ==
    LET text == IF content = "empty" THEN "{}" ELSE content
    IN  JSONParse(text)

\* if (x.isPrivateClinic): JavaScript truthiness of the property
IsTruthy(field) == field \in {"true", "string"}

ClassifyOptions ==
    MergeOptions([maxAttempts |-> ClassifyMaxAttempts,
                  baseDelayMs |-> ClassifyBaseDelayMs])

(***************************************************************************)
(* A unit of work (the async callback handed to limit) is a record:        *)
(*   st       "queued"     in p-limit's queue                              *)
(*            "pacing"     admitted, awaiting the 1500 ms timer            *)
(*            "retry"      inside withRetry (w is its state)               *)
(*            "fulfilled"  returned { place, classification }              *)
(*            "rejected"   threw reason                                    *)
(*   settles  how many times its promise settled                           *)
(* The gate state s = [queue, activeCount, unit, admitLog] is what p-limit *)
(* and the units share.                                                    *)
(***************************************************************************)
QueuedUnit == [st |-> "queued", w |-> Idle, reason |-> NoError, settles |-> 0]

Settled(u) == u.st \in {"fulfilled", "rejected"}
Admitted(u) == u.st \in {"pacing", "retry"}

\* mutant: dequeues the newest entry instead of the oldest
RunLifo(s) ==
    LET h == s.queue[Len(s.queue)]
    IN  [s EXCEPT !.queue = SubSeq(@, 1, Len(@) - 1),
                  !.activeCount = @ + 1,
                  !.unit[h].st = "pacing",
                  !.admitLog = Append(@, h)]

\* mutant: the callback calls withRetry at once, without the pacing timer
RunWithoutPacing(s) ==
    LET h == Head(s.queue)
    IN  [s EXCEPT !.queue = Tail(@),
                  !.activeCount = @ + 1,
                  !.unit[h].st = "retry",
                  !.unit[h].w = WithRetryEnter(
                      MergeOptions([maxAttempts |-> ClassifyMaxAttempts,
                                    baseDelayMs |-> ClassifyBaseDelayMs])),
                  !.admitLog = Append(@, h)]

\* p-limit: queue.dequeue()() -> run: activeCount++, the callback starts and
\* reaches its first await (the pacing timer)
Run(s) ==
    LET h == Head(s.queue)
    IN  [s EXCEPT !.queue = Tail(@),
                  !.activeCount = @ + 1,
                  !.unit[h].st = "pacing",
                  !.admitLog = Append(@, h)]

\* mutant: the limit is not tested
TryDequeueNoLimit(s, c) ==
    IF Len(s.queue) > 0 THEN Run(s) ELSE s

\* p-limit enqueue's microtask:
\*   if (activeCount < concurrency && queue.size > 0) queue.dequeue()()
TryDequeue(s, c) ==
    IF s.activeCount < c /\ Len(s.queue) > 0 THEN Run(s) ELSE s

\* mutant: releases the slot without starting the next queued callback
ReleaseOnly(s) == [s EXCEPT !.activeCount = @ - 1]

\* p-limit next(): activeCount--; if (queue.size > 0) queue.dequeue()()
Release(s) ==
    LET t == [s EXCEPT !.activeCount = @ - 1]
    IN  IF Len(t.queue) > 0 THEN Run(t) ELSE t

\* places.map(place => limit(...)): n enqueues, then one microtask each
RECURSIVE Drain(_, _, _)
Drain(s, c, times) ==
    IF times = 0 THEN s ELSE Drain(TryDequeue(s, c), c, times - 1)

Submit(n, c) ==
    Drain([queue |-> [i \in 1..n |-> i],
           activeCount |-> 0,
           unit |-> [i \in 1..n |-> QueuedUnit],
           admitLog |-> << >>],
          c, n)

\* the callback after withRetry: lines 99-109 read classification.isPrivateClinic
\* (a TypeError on null) and return; a throw of withRetry propagates
AfterWithRetry(u, w) ==
    CASE w.pc = "returned" /\ w.value.kind = "null" ->
            [u EXCEPT !.st = "rejected", !.w = w, !.reason = TypeError,
                      !.settles = @ + 1]
      [] w.pc = "returned" /\ w.value.kind # "null" ->
            [u EXCEPT !.st = "fulfilled", !.w = w, !.settles = @ + 1]
      [] w.pc = "thrown" ->
            [u EXCEPT !.st = "rejected", !.w = w, !.reason = w.err,
                      !.settles = @ + 1]
      [] w.pc = "exhausted" ->
            [u EXCEPT !.st = "rejected", !.w = w, !.reason = ExhaustedError,
                      !.settles = @ + 1]
      [] OTHER -> [u EXCEPT !.w = w]

\* mutant: a rejected unit aborts the units still running (fail-fast)
StepAbortsSiblings(s, i, u) ==
    LET t == [s EXCEPT !.unit[i] = u]
        aborted == [k \in DOMAIN t.unit |->
                      IF u.st = "rejected" /\ Admitted(t.unit[k])
                      THEN [t.unit[k] EXCEPT !.st = "rejected",
                                             !.reason = u.reason,
                                             !.settles = @ + 1]
                      ELSE t.unit[k]]
    IN  IF Settled(u) THEN Release([t EXCEPT !.unit = aborted]) ELSE t

\* mutant: a unit that failed keeps its slot
StepKeepsSlotOnFailure(s, i, u) ==
    LET t == [s EXCEPT !.unit[i] = u]
    IN  IF u.st = "fulfilled" THEN Release(t) ELSE t

\* unit i moved to u: when that settled it, p-limit's next() runs
Step(s, i, u) ==
    LET t == [s EXCEPT !.unit[i] = u]
    IN  IF Settled(u) THEN Release(t) ELSE t

ResultOf(u) ==
    [status |-> u.st, value |-> u.w.value, reason |-> u.reason]

\* mutant: Promise.all -- rejects at the first rejection
JoinAll(units) ==
    IF \E i \in DOMAIN units : units[i].st = "rejected"
    THEN [done |-> TRUE, threw |-> TRUE, results |-> << >>]
    ELSE IF \A i \in DOMAIN units : units[i].st = "fulfilled"
         THEN [done |-> TRUE, threw |-> FALSE,
               results |-> [i \in DOMAIN units |-> ResultOf(units[i])]]
         ELSE [done |-> FALSE, threw |-> FALSE, results |-> << >>]

\* mutant: the results come in the order the promises settled
JoinInSettleOrder(units) ==
    LET late == SelectSeq([k \in DOMAIN units |-> k],
                          LAMBDA k : \A j \in DOMAIN settleLog : settleLog[j] # k)
        order == settleLog \o late
    IN  IF \A i \in DOMAIN units : Settled(units[i])
        THEN [done |-> TRUE, threw |-> FALSE,
              results |-> [i \in DOMAIN units |-> ResultOf(units[order[i]])]]
        ELSE [done |-> FALSE, threw |-> FALSE, results |-> << >>]

\* Promise.allSettled: resolves once every promise settled, in input order
JoinAllSettled(units) ==
    IF \A i \in DOMAIN units : Settled(units[i])
    THEN [done |-> TRUE, threw |-> FALSE,
          results |-> [i \in DOMAIN units |-> ResultOf(units[i])]]
    ELSE [done |-> FALSE, threw |-> FALSE, results |-> << >>]

\* mutant: keeps every fulfilled result
AggregateAllFulfilled(res) ==
    LET F[k \in 0..Len(res)] ==
            IF k = 0 THEN << >>
            ELSE IF res[k].status = "fulfilled"
                 THEN Append(F[k - 1], k)
                 ELSE F[k - 1]
    IN  F[Len(res)]

\* for (const result of results) { if fulfilled and isPrivateClinic: push }
\* the accepted list holds the positions of the places pushed
Aggregate(res) ==
    LET F[k \in 0..Len(res)] ==
            IF k = 0 THEN << >>
            ELSE IF /\ res[k].status = "fulfilled"
                    /\ IsTruthy(res[k].value.isPrivateClinic)
                 THEN Append(F[k - 1], k)
                 ELSE F[k - 1]
    IN  F[Len(res)]

(***************************************************************************)
(* Spec: one call of classifyPlaces.                                       *)
(***************************************************************************)
\* what follows a step of the gate state: the join and, once it resolves,
\* the aggregation loop and the return
Continue(s) ==
    LET j == JoinAllSettled(s.unit)
        resolves == pc \in {"idle", "running"} /\ j.done
    IN  /\ queue' = s.queue
        /\ activeCount' = s.activeCount
        /\ unit' = s.unit
        /\ admitLog' = s.admitLog
        /\ results' = IF resolves THEN j.results ELSE results
        /\ accepted' = IF resolves /\ ~j.threw THEN Aggregate(j.results)
                       ELSE accepted
        /\ pc' = IF resolves THEN (IF j.threw THEN "thrown" ELSE "returned")
                 ELSE IF pc = "idle" THEN "running" ELSE pc

Gate == [queue |-> queue, activeCount |-> activeCount, unit |-> unit,
         admitLog |-> admitLog]

\* classifyPlaces(places, apiKey, concurrency) up to its await
ClassifyPlaces(n, c) ==
    /\ pc = "idle"
    /\ places' = n
    /\ concurrency' = c
    /\ Continue(Submit(n, c))
    /\ given' = [i \in 1..n |-> [fails |-> 0, content |-> "none"]]
    /\ UNCHANGED retryVars

\* the pacing timer of unit i fires: withRetry is entered and calls fn
PacingElapsed(i) ==
    /\ pc # "idle"
    /\ i \in 1..places
    /\ unit[i].st = "pacing"
    /\ Continue(Step(Gate, i,
           AfterWithRetry([unit[i] EXCEPT !.st = "retry"],
                          WithRetryEnter(ClassifyOptions))))
    /\ UNCHANGED << places, concurrency, given >>
    /\ UNCHANGED retryVars

Calling(i) ==
    /\ pc # "idle"
    /\ i \in 1..places
    /\ unit[i].st = "retry"
    /\ unit[i].w.pc = "call"

\* the chat-completion call of unit i resolves with a message content
ApiResolves(i, content) ==
    /\ Calling(i)
    /\ LET parsed == classifySinglePlace(content)
           w == IF parsed.throws
                THEN FnRejects(unit[i].w, ClassifyOptions,
                               [SyntaxError EXCEPT !.id = unit[i].w.calls])
                ELSE FnResolves(unit[i].w, parsed.value)
       IN  /\ Continue(Step(Gate, i, AfterWithRetry(unit[i], w)))
           /\ given' = IF content = "malformed"
                       THEN [given EXCEPT ![i].fails = @ + 1]
                       ELSE [given EXCEPT ![i].content = content]
    /\ UNCHANGED << places, concurrency >>
    /\ UNCHANGED retryVars

\* the chat-completion call of unit i rejects with error e
ApiRejects(i, e) ==
    /\ Calling(i)
    /\ LET w == FnRejects(unit[i].w, ClassifyOptions,
                          [e EXCEPT !.id = unit[i].w.calls])
       IN  Continue(Step(Gate, i, AfterWithRetry(unit[i], w)))
    /\ given' = [given EXCEPT ![i].fails = @ + 1]
    /\ UNCHANGED << places, concurrency >>
    /\ UNCHANGED retryVars

\* the backoff timer of unit i fires
BackoffElapsed(i) ==
    /\ pc # "idle"
    /\ i \in 1..places
    /\ unit[i].st = "retry"
    /\ unit[i].w.pc = "wait"
    /\ Continue(Step(Gate, i,
           AfterWithRetry(unit[i], TimerFires(unit[i].w, ClassifyOptions))))
    /\ UNCHANGED << places, concurrency, given >>
    /\ UNCHANGED retryVars

Next ==
    \/ \E n \in 0..MaxPlaces, c \in 1..MaxConcurrency :
          ClassifyPlaces(n, c) /\ UNCHANGED auxVars
    \/ \E i \in 1..MaxPlaces : PacingElapsed(i) /\ UNCHANGED auxVars
    \/ \E i \in 1..MaxPlaces, content \in ContentsTried(places) :
          ApiResolves(i, content) /\ UNCHANGED auxVars
    \/ \E i \in 1..MaxPlaces, e \in ApiErrorsTried(places) :
          ApiRejects(i, e) /\ UNCHANGED auxVars
    \/ \E i \in 1..MaxPlaces : BackoffElapsed(i) /\ UNCHANGED auxVars

Spec == Init /\ [][Next]_vars

(***************************************************************************)
(* Claims about classifyPlaces.                                            *)
(***************************************************************************)
Started == pc # "idle"
Finished == pc \in {"returned", "thrown"}
AllSettled == \A i \in 1..places : Settled(unit[i])
InFlight == { i \in 1..places : Admitted(unit[i]) }
InBackoff(i) == unit[i].st = "retry" /\ unit[i].w.pc = "wait"
RetriesExhausted(i) == unit[i].st = "rejected" /\ unit[i].w.pc = "thrown"

\* unit i can take its own next step
CanProceed(i) ==
    CASE unit[i].st = "pacing" -> ENABLED PacingElapsed(i)
      [] unit[i].st = "retry" /\ unit[i].w.pc = "call" ->
            ENABLED ApiResolves(i, "accept")
      [] unit[i].st = "retry" /\ unit[i].w.pc = "wait" ->
            ENABLED BackoffElapsed(i)
      [] OTHER -> FALSE

(***************************************************************************)
(* C1: when classifyPlaces completes, every one of the n places has        *)
(* exactly one terminal outcome: its promise settled once, as fulfilled    *)
(* (a verdict) or rejected (a failure), and the n results are those        *)
(* outcomes in order; no promise ever settles twice.                       *)
(***************************************************************************)
C1_OneOutcomePerItem ==
    /\ \A i \in 1..places :
          unit[i].settles = IF Settled(unit[i]) THEN 1 ELSE 0
    /\ Finished =>
          /\ AllSettled
          /\ Len(results) = places
          /\ \A i \in 1..places : results[i].status = unit[i].st

C1_Witness ==
    /\ pc = "returned"
    /\ places >= 2
    /\ \E i, j \in 1..places :
          unit[i].st = "fulfilled" /\ RetriesExhausted(j)

(***************************************************************************)
(* C5: with concurrency limit C, at most C units are admitted and not yet  *)
(* terminal (pacing, calling the endpoint or in a retry backoff) in every  *)
(* reachable state.                                                        *)
(***************************************************************************)
C5_AtMostCInFlight ==
    Started => Cardinality(InFlight) <= concurrency

C5_Witness ==
    /\ Cardinality(InFlight) = concurrency
    /\ concurrency >= 2
    /\ Len(queue) > 0
    /\ \E i, j \in InFlight :
          InBackoff(i) /\ unit[j].st = "retry" /\ unit[j].w.pc = "call"

(***************************************************************************)
(* C6: places are admitted in submission order: the k-th admission is      *)
(* place k, and no place is admitted while an earlier one is still queued. *)
(***************************************************************************)
C6_FifoAdmission ==
    /\ \A k \in 1..Len(admitLog) : admitLog[k] = k
    /\ \A i, j \in 1..places :
          (i < j /\ unit[j].st # "queued") => unit[i].st # "queued"

\* place 2 finished before place 1, and place 3 took the slot it freed
C6_Witness ==
    /\ places >= 3
    /\ concurrency = 2
    /\ Len(admitLog) = 3
    /\ Settled(unit[2])
    /\ ~Settled(unit[1])

(***************************************************************************)
(* C7: a terminal failure of one place cancels no other place and never    *)
(* fails classifyPlaces: the call never throws, it returns exactly when    *)
(* every place is terminal (also when all of them failed), with a list of  *)
(* places of the batch, and a place is failed only by its own answers      *)
(* (ClassifyMaxAttempts failing ones, or a null verdict), never because a  *)
(* sibling failed.                                                         *)
(***************************************************************************)
C7_FailureIsolated ==
    /\ pc # "thrown"
    /\ pc = "returned" <=> (Started /\ AllSettled)
    /\ pc = "returned" => \A k \in 1..Len(accepted) : accepted[k] \in 1..places
    /\ \A j \in 1..places :
          unit[j].st = "rejected" =>
              \/ given[j].fails = ClassifyMaxAttempts
              \/ given[j].content = "null"

\* every place failed, one of them by exhausting its retries
C7_Witness ==
    /\ pc = "returned"
    /\ places >= 2
    /\ \A i \in 1..places : unit[i].st = "rejected"
    /\ \E i \in 1..places : RetriesExhausted(i)
    /\ accepted = << >>

(***************************************************************************)
(* C8: the terminal outcome of a place and its number of inference         *)
(* invocations are a function of the answers the endpoint gave to that     *)
(* place alone (so two runs that differ only in the answers given to       *)
(* place j agree on every other place): a place is terminal exactly when   *)
(* it got a parseable answer or ClassifyMaxAttempts failing ones; it is    *)
(* fulfilled with the parsed answer unless that is null, and it invoked    *)
(* the endpoint once per answer.                                           *)
(***************************************************************************)
ExpectedState(g) ==
    IF g.content = "null" THEN "rejected"
    ELSE IF g.content # "none" THEN "fulfilled"
    ELSE IF g.fails = ClassifyMaxAttempts THEN "rejected"
    ELSE "open"

Answers(g) == g.fails + (IF g.content = "none" THEN 0 ELSE 1)

C8_OutcomeOfOwnAnswers ==
    \A i \in 1..places :
        /\ Settled(unit[i]) <=> ExpectedState(given[i]) # "open"
        /\ Settled(unit[i]) =>
              /\ unit[i].st = ExpectedState(given[i])
              /\ unit[i].w.calls = Answers(given[i])
              /\ unit[i].st = "fulfilled" =>
                    unit[i].w.value = classifySinglePlace(given[i].content).value
        /\ ~Settled(unit[i]) =>
              unit[i].w.calls = Answers(given[i]) +
                  (IF unit[i].st = "retry" /\ unit[i].w.pc = "call" THEN 1 ELSE 0)

\* place 1 exhausted its retries while place 2 was accepted at its first call
C8_Witness ==
    /\ places >= 2
    /\ RetriesExhausted(1)
    /\ unit[2].st = "fulfilled"
    /\ unit[2].w.calls = 1
    /\ given[2] = [fails |-> 0, content |-> "accept"]

(***************************************************************************)
(* C9 (as claimed): a failed attempt of one place and its retry backoff    *)
(* never delay the admission of another place: no place is held in the     *)
(* queue while a sibling sits in a retry backoff.                          *)
(***************************************************************************)
C9_BackoffNeverDelaysAdmission ==
    \A i, j \in 1..places : ~(InBackoff(i) /\ unit[j].st = "queued")

(***************************************************************************)
(* C9 (amended): a failed attempt of one place and its retry backoff do    *)
(* not delay a place that is already admitted: while a sibling is in       *)
(* backoff every admitted place can take its own next step; a place is     *)
(* held in the queue only while all C slots are taken, so a retrying       *)
(* sibling delays its admission only by keeping its slot.                  *)
(***************************************************************************)
C9_BackoffDelaysOnlyBySlot ==
    /\ \A j \in InFlight :
          (\E i \in InFlight \ {j} : InBackoff(i)) => CanProceed(j)
    /\ (Started /\ Len(queue) > 0) => Cardinality(InFlight) = concurrency

\* place 1 is in backoff, place 2 is calling, a place is queued behind them
C9_Witness ==
    /\ places >= 3
    /\ concurrency = 2
    /\ InBackoff(1)
    /\ unit[2].st = "retry" /\ unit[2].w.pc = "call"
    /\ Len(queue) > 0

(***************************************************************************)
(* C10: the list classifyPlaces returns holds exactly the places whose     *)
(* unit settled with a verdict whose isPrivateClinic is true, each once    *)
(* and in order; no place with another verdict and no failed place is in   *)
(* it.                                                                     *)
(***************************************************************************)
AcceptedSet == { accepted[k] : k \in 1..Len(accepted) }

C10_AcceptedExactlyTrueVerdicts ==
    pc = "returned" =>
        /\ AcceptedSet =
              { i \in 1..places :
                  /\ unit[i].st = "fulfilled"
                  /\ unit[i].w.value.isPrivateClinic = "true" }
        /\ Cardinality(AcceptedSet) = Len(accepted)

(***************************************************************************)
(* C18: a parsed response that does not have the Verdict shape (the field  *)
(* missing or not a boolean, the empty object of an empty body included)   *)
(* fails its attempt and is retried: no place settles with such a value as *)
(* its verdict, and a place fails only through the retry path.             *)
(***************************************************************************)
Conforms(v) == v.kind = "object" /\ v.isPrivateClinic \in {"true", "false"}

C18_NonConformingIsRetried ==
    \A i \in 1..places :
        /\ unit[i].st = "fulfilled" => Conforms(unit[i].w.value)
        /\ unit[i].st = "rejected" => unit[i].w.pc \in {"thrown", "exhausted"}

(***************************************************************************)
(* C24: a response body that is not JSON is handled like a transient       *)
(* failure of the call: it fails the attempt, is retried on the schedule   *)
(* of errors that are not rate-limit errors and within the same budget of  *)
(* attempts, and the place fails only when the budget is used up.          *)
(***************************************************************************)
IsSyntaxError(e) == e.name = "SyntaxError"

C24_MalformedIsTransient ==
    \A i \in 1..places :
        LET w == unit[i].w
        IN  /\ IsSyntaxError(w.err) =>
                  /\ unit[i].st \in {"retry", "rejected"}
                  /\ w.pc = "wait" =>
                        /\ w.attempt < 5
                        /\ w.delay = 3000 * (2 ^ (w.attempt - 1))
                        /\ w.delay = ComputeDelay(ClassifyOptions, w.attempt,
                                                  NetworkError)
            /\ (unit[i].st = "rejected" /\ IsSyntaxError(unit[i].reason)) =>
                  /\ w.pc = "thrown"
                  /\ w.calls = 5 /\ w.waits = 4
                  /\ given[i].fails = 5
            /\ unit[i].st = "fulfilled" =>
                  /\ w.calls = given[i].fails + 1
                  /\ w.warns = given[i].fails

\* a place that failed on its fifth call, a malformed body
C24_Witness ==
    /\ places >= 1
    /\ unit[1].st = "rejected"
    /\ IsSyntaxError(unit[1].reason)
    /\ unit[1].w.calls = 5
    /\ pc = "returned"

(***************************************************************************)
(* C21: each place goes Pending -> InFlight -> Succeeded, Retrying (and    *)
(* back to InFlight) or FailedTerminal; Succeeded and FailedTerminal are   *)
(* absorbing (no call, wait or change after them), and FailedTerminal is   *)
(* entered only with the retry budget used up.                             *)
(***************************************************************************)
ItemState(u) ==
    CASE u.st = "queued"    -> "Pending"
      [] u.st = "pacing"    -> "InFlight"
      [] u.st = "fulfilled" -> "Succeeded"
      [] u.st = "rejected"  -> "FailedTerminal"
      [] OTHER -> IF u.w.pc = "wait" THEN "Retrying" ELSE "InFlight"

ItemTransitions ==
    { << "Pending", "InFlight" >>, << "InFlight", "InFlight" >>,
      << "InFlight", "Succeeded" >>, << "InFlight", "Retrying" >>,
      << "InFlight", "FailedTerminal" >>, << "Retrying", "InFlight" >> }

ItemStep(i) ==
    \/ unit'[i] = unit[i]
    \/ /\ << ItemState(unit[i]), ItemState(unit'[i]) >> \in ItemTransitions
       /\ ItemState(unit'[i]) = "FailedTerminal" =>
             /\ unit'[i].w.pc = "thrown"
             /\ unit'[i].w.calls = 5

C21_ItemStateMachine ==
    [][\A i \in 1..places : ItemStep(i)]_vars

(***************************************************************************)
(* C23: classification retries with a budget of 5 attempts and base delay  *)
(* 3000 ms: the endpoint is invoked at least once and at most 5 times for  *)
(* a place, a place fails only after exactly 5 failed invocations, and a   *)
(* batch of n places causes at most 5n invocations.                        *)
(***************************************************************************)
RECURSIVE CallsUpTo(_)
CallsUpTo(k) == IF k = 0 THEN 0 ELSE CallsUpTo(k - 1) + unit[k].w.calls

C23_FiveAttempts ==
    /\ CallsUpTo(places) <= 5 * places
    /\ \A i \in 1..places :
          /\ unit[i].w.calls <= 5
          /\ Settled(unit[i]) => unit[i].w.calls >= 1
          /\ unit[i].w.pc = "wait" =>
                unit[i].w.delay >= 3000 * (2 ^ (unit[i].w.attempt - 1))
          /\ unit[i].st = "rejected" =>
                /\ unit[i].w.calls = 5
                /\ given[i].fails = 5

(***************************************************************************)
(* Completion.  classifyPlaces has no cancellation path: the only steps    *)
(* of a unit are its pacing timer, its chat-completion call and its        *)
(* backoff timer.  SpecLive is Spec over batches of at most MaxPlacesLive  *)
(* places, with the assumption of the completion claim as weak fairness:   *)
(* a timer that is running fires, a call that is pending completes.        *)
(***************************************************************************)
MaxPlacesLive == 2

CallCompletes(i) ==
    \/ \E content \in BasicContents : ApiResolves(i, content)
    \/ \E e \in BasicApiErrors : ApiRejects(i, e)

NextLive ==
    \/ \E n \in 0..MaxPlacesLive, c \in 1..MaxConcurrency :
          ClassifyPlaces(n, c) /\ UNCHANGED auxVars
    \/ \E i \in 1..MaxPlacesLive : PacingElapsed(i) /\ UNCHANGED auxVars
    \/ \E i \in 1..MaxPlacesLive : CallCompletes(i) /\ UNCHANGED auxVars
    \/ \E i \in 1..MaxPlacesLive : BackoffElapsed(i) /\ UNCHANGED auxVars

TimersAndCallsComplete ==
    \A i \in 1..MaxPlacesLive :
        /\ WF_vars(PacingElapsed(i) /\ UNCHANGED auxVars)
        /\ WF_vars(CallCompletes(i) /\ UNCHANGED auxVars)
        /\ WF_vars(BackoffElapsed(i) /\ UNCHANGED auxVars)

SpecLive == Init /\ [][NextLive]_vars /\ TimersAndCallsComplete

(***************************************************************************)
(* C12: if every chat-completion call and every timer eventually           *)
(* completes, every queued place is eventually admitted, every admitted    *)
(* place eventually settles (a verdict, or its retries exhausted), and     *)
(* classifyPlaces eventually returns, for every batch.                     *)
(***************************************************************************)
WasAdmitted(i) == \E k \in 1..Len(admitLog) : admitLog[k] = i

C12_EveryPlaceCompletes ==
    Started ~> /\ pc = "returned"
               /\ \A i \in 1..places : WasAdmitted(i) /\ Settled(unit[i])

\* a batch returned after one place waited in the queue behind a place that
\* used up its five attempts
C12_Witness ==
    /\ pc = "returned"
    /\ places = 2
    /\ concurrency = 1
    /\ unit[1].st = "rejected"
    /\ unit[1].w.calls = ClassifyMaxAttempts
    /\ unit[2].st = "fulfilled"
    /\ unit[2].w.waits > 0

(***************************************************************************)
(* formatEgyptianPhone.  A string is the sequence of its characters.       *)
(***************************************************************************)
MaxPhoneLen == 12

DigitChar == << "0", "1", "2", "3", "4", "5", "6", "7", "8", "9" >>
IsDigit(c) == \E k \in 1..Len(DigitChar) : DigitChar[k] = c

\* raw.replace(/\D/g, "")
StripNonDigits(raw) == SelectSeq(raw, IsDigit)

\* digits.startsWith(prefix)
StartsWith(digits, prefix) ==
    /\ Len(digits) >= Len(prefix)
    /\ SubSeq(digits, 1, Len(prefix)) = prefix

\* digits.slice(k)
Slice(digits, k) == SubSeq(digits, k + 1, Len(digits))

\* if (digits.startsWith("002")) ... else if (digits.startsWith("20") ...)
StripCountryCode(digits) ==
    IF StartsWith(digits, << "0", "0", "2" >>)
    THEN Slice(digits, 2)
    ELSE IF StartsWith(digits, << "2", "0" >>) /\ ~StartsWith(digits, << "0" >>)
         THEN << "0" >> \o Slice(digits, 2)
         ELSE digits

AllDigits(digits, from) == \A k \in from..Len(digits) : IsDigit(digits[k])

\* /^01[0-9]\d{8}$/
IsMobile(digits) ==
    /\ Len(digits) = 11
    /\ digits[1] = "0" /\ digits[2] = "1"
    /\ AllDigits(digits, 3)

\* /^02\d{8}$/
IsCairoLandline(digits) ==
    /\ Len(digits) = 10
    /\ digits[1] = "0" /\ digits[2] = "2"
    /\ AllDigits(digits, 3)

\* /^0[3-9]\d{8}$/
IsOtherLandline(digits) ==
    /\ Len(digits) = 10
    /\ digits[1] = "0"
    /\ digits[2] \in {"3", "4", "5", "6", "7", "8", "9"}
    /\ AllDigits(digits, 3)

NullPhone == [isNull |-> TRUE, out |-> << >>]

formatEgyptianPhone(raw) ==
    LET digits == StripCountryCode(StripNonDigits(raw))
    IN  IF raw = << >> THEN NullPhone
        ELSE IF ~StartsWith(digits, << "0" >>) THEN NullPhone
        ELSE IF \/ IsMobile(digits)
                \/ IsCairoLandline(digits)
                \/ IsOtherLandline(digits)
             THEN [isNull |-> FALSE, out |-> << "+", "2" >> \o digits]
             ELSE NullPhone

(***************************************************************************)
(* SpecPhone: calls of formatEgyptianPhone.  The inputs are a country-code *)
(* prefix, written with or without punctuation, followed by a number that  *)
(* begins with one of the leads and has up to MaxPhoneLen digits, and the  *)
(* short and empty strings.                                                *)
(***************************************************************************)
PhonePrefixes ==
    { << >>, << "0", "0" >>, << "0", "0", "2" >>, << "0", "0", "2", "0" >>,
      << "2", "0" >>, << "+", "2", "0" >>, << "+", "2", "0", " " >>,
      << "+", "2" >>, << "(", "0", "0", "2", ")", " " >> }

PhoneLeads ==
    { << "0", "1", "0" >>, << "0", "1", "-" >>, << "0", "2" >>,
      << "0", "2", " " >>, << "0", "3" >>, << "0", "9" >>, << "1", "0" >>,
      << "1" >>, << "2" >>, << "0", "0" >> }

\* n digits 1, 2, 3, ...
Filler(n) == [k \in 1..n |-> DigitChar[(k % 10) + 1]]

PhoneInputs ==
    { p \o l \o Filler(n) :
        p \in PhonePrefixes, l \in PhoneLeads, n \in 0..(MaxPhoneLen - 2) }
    \cup { << "0", "2", "2", "3", "4", "5", "6", "7", "8", "9" >>,
           << "1", "2", "3" >> }

FormatPhone(raw) ==
    LET res == formatEgyptianPhone(raw)
    IN  /\ fmt' = [pc |-> "returned", raw |-> raw,
                   out |-> res.out, isNull |-> res.isNull]
        /\ UNCHANGED << retryVars, classifyVars, mainVars, scriptVars >>

NextPhone == \E raw \in PhoneInputs : FormatPhone(raw)

SpecPhone == Init /\ [][NextPhone]_vars

(***************************************************************************)
(* C16: formatEgyptianPhone maps "01012345678" to "+201012345678",         *)
(* "0223456789" to "+20223456789", "00201012345678" to "+201012345678"     *)
(* and "123" to null.                                                      *)
(***************************************************************************)
Formats(raw, out) ==
    fmt.raw = raw => ~fmt.isNull /\ fmt.out = out

C16_PhoneExamples ==
    fmt.pc = "returned" =>
        /\ Formats(<< "0", "1", "0", "1", "2", "3", "4", "5", "6", "7", "8" >>,
                   << "+", "2", "0", "1", "0", "1", "2", "3", "4", "5", "6",
                      "7", "8" >>)
        /\ Formats(<< "0", "2", "2", "3", "4", "5", "6", "7", "8", "9" >>,
                   << "+", "2", "0", "2", "2", "3", "4", "5", "6", "7", "8",
                      "9" >>)
        /\ Formats(<< "0", "0", "2", "0", "1", "0", "1", "2", "3", "4", "5",
                      "6", "7", "8" >>,
                   << "+", "2", "0", "1", "0", "1", "2", "3", "4", "5", "6",
                      "7", "8" >>)
        /\ fmt.raw = << "1", "2", "3" >> => fmt.isNull

(***************************************************************************)
(* SpecMain: one run of main.  scrapeGoogleMaps uses the withRetry record  *)
(* r; classifyPlaces runs as in Spec, on the places the listing returned.  *)
(***************************************************************************)
MaxPlacesMain == 2

ScrapeMaxAttempts == 3
ScrapeBaseDelayMs == 2000
\* mutant: one more attempt at the listing call
ScrapeOptionsOneMore == [maxAttempts |-> ScrapeMaxAttempts + 1,
                         baseDelayMs |-> ScrapeBaseDelayMs]

ScrapeOptions == [maxAttempts |-> ScrapeMaxAttempts,
                  baseDelayMs |-> ScrapeBaseDelayMs]

\* a SerpApi response: whether its error field is a non-empty string, and
\* its local_results (absent, or a list of that length)
Response(error, hasLocalResults, n) ==
    [kind |-> "response", id |-> 0, error |-> error,
     hasLocalResults |-> hasLocalResults, local_results |-> n]

Responses ==
    { Response(e, TRUE, n) : e \in BOOLEAN, n \in 0..MaxPlacesMain }
    \cup { Response(e, FALSE, 0) : e \in BOOLEAN }

\* mutant: a missing variable is reported by nothing and main goes on
getRequiredEnvGoesOn(present) == [exits |-> FALSE, code |-> 0]

\* getRequiredEnv: if (!value) process.exit(1)
getRequiredEnv(present) ==
    IF ~present THEN [exits |-> TRUE, code |-> 1]
    ELSE [exits |-> FALSE, code |-> 0]

\* mutant: a response with an error field is read like any other
AfterGetJsonIgnoresError(resp) ==
    LET localResults == IF resp.hasLocalResults THEN resp.local_results ELSE 0
    IN  IF localResults = 0
        THEN [throws |-> FALSE, listing |-> "empty", places |-> 0]
        ELSE [throws |-> FALSE, listing |-> "results", places |-> localResults]

\* scrapeGoogleMaps after withRetry returned the response
AfterGetJson(resp) ==
    LET localResults == IF resp.hasLocalResults THEN resp.local_results ELSE 0
    IN  IF resp.error
        THEN [throws |-> TRUE, listing |-> "error", places |-> 0]
        ELSE IF localResults = 0
             THEN [throws |-> FALSE, listing |-> "empty", places |-> 0]
             ELSE [throws |-> FALSE, listing |-> "results",
                   places |-> localResults]

\* process.exit(code), or main returning (0) / main().catch (1)
Exit(a, code) == [a EXCEPT !.pc = "exited", !.exitCode = code]

\* main up to the await of scrapeGoogleMaps
MainStart(serp, groq, c) ==
    LET a == [app EXCEPT !.serpApiKey = serp, !.groqApiKey = groq,
                         !.concurrency = c]
        first == getRequiredEnv(serp)
        second == getRequiredEnv(groq)
    IN  /\ app.pc = "init"
        /\ IF first.exits
           THEN app' = Exit(a, first.code) /\ UNCHANGED << r, ropts >>
           ELSE IF second.exits
                THEN app' = Exit(a, second.code) /\ UNCHANGED << r, ropts >>
                ELSE /\ app' = [a EXCEPT !.pc = "scraping"]
                     /\ ropts' = MergeOptions(ScrapeOptions)
                     /\ r' = WithRetryEnter(MergeOptions(ScrapeOptions))
        /\ UNCHANGED << plan, classifyVars, phoneVars, scriptVars >>

\* getJson resolves: withRetry returns, scrapeGoogleMaps throws or returns,
\* and main exits or goes on to classifyPlaces
GetJsonResolves(resp) ==
    LET got == AfterGetJson(resp)
        a == [app EXCEPT !.listing = got.listing, !.rawPlaces = got.places]
    IN  /\ app.pc = "scraping"
        /\ r.pc = "call"
        /\ r' = FnResolves(r, [resp EXCEPT !.id = r.calls])
        /\ app' = IF got.throws THEN Exit(a, 1)
                  ELSE IF got.places = 0 THEN Exit(a, 0)
                  ELSE [a EXCEPT !.pc = "classify"]
        /\ UNCHANGED << ropts, plan, classifyVars, phoneVars, scriptVars >>

\* getJson rejects: withRetry waits, or rethrows to main().catch
GetJsonRejects(e) ==
    LET w == FnRejects(r, ropts, [e EXCEPT !.id = r.calls])
    IN  /\ app.pc = "scraping"
        /\ r.pc = "call"
        /\ r' = w
        /\ app' = IF w.pc = "wait" THEN app
                  ELSE Exit([app EXCEPT !.listing = "failed"], 1)
        /\ UNCHANGED << ropts, plan, classifyVars, phoneVars, scriptVars >>

\* the backoff timer of the listing call fires
ListingBackoffElapsed ==
    /\ app.pc = "scraping"
    /\ RetryTimerFires
    /\ UNCHANGED auxVars

\* pLimit(concurrency) accepts a positive integer only
ValidConcurrency(c) == c >= 1

\* main calls classifyPlaces; with a concurrency pLimit refuses it throws
\* at once and main().catch exits
MainClassify ==
    /\ app.pc = "classify"
    /\ pc = "idle"
    /\ IF ValidConcurrency(app.concurrency)
       THEN /\ ClassifyPlaces(app.rawPlaces, app.concurrency)
            /\ UNCHANGED auxVars
       ELSE /\ app' = Exit(app, 1)
            /\ UNCHANGED << retryVars, classifyVars, phoneVars, scriptVars >>

\* classifyPlaces settled: main exits on no accepted place, or formats the
\* leads and calls writeLeads
MainAfterClassify ==
    /\ app.pc = "classify"
    /\ pc \in {"returned", "thrown"}
    /\ app' = IF pc = "thrown" THEN Exit(app, 1)
              ELSE IF Len(accepted) = 0 THEN Exit(app, 0)
              ELSE [app EXCEPT !.pc = "writing"]
    /\ UNCHANGED << retryVars, classifyVars, phoneVars, scriptVars >>

\* writeLeads resolves and main returns, or it rejects
WriteLeads(ok) ==
    /\ app.pc = "writing"
    /\ app' = IF ok THEN Exit([app EXCEPT !.written = "ok"], 0)
              ELSE Exit([app EXCEPT !.written = "failed"], 1)
    /\ UNCHANGED << retryVars, classifyVars, phoneVars, scriptVars >>

NextMain ==
    \/ \E serp \in BOOLEAN, groq \in BOOLEAN, c \in 0..MaxConcurrency :
          MainStart(serp, groq, c)
    \/ \E resp \in Responses : GetJsonResolves(resp)
    \/ \E e \in ApiErrors : GetJsonRejects(e)
    \/ ListingBackoffElapsed
    \/ MainClassify
    \/ \E i \in 1..MaxPlacesMain : PacingElapsed(i) /\ UNCHANGED auxVars
    \/ \E i \in 1..MaxPlacesMain, content \in BasicContents :
          ApiResolves(i, content) /\ UNCHANGED auxVars
    \/ \E i \in 1..MaxPlacesMain, e \in BasicApiErrors :
          ApiRejects(i, e) /\ UNCHANGED auxVars
    \/ \E i \in 1..MaxPlacesMain : BackoffElapsed(i) /\ UNCHANGED auxVars
    \/ MainAfterClassify
    \/ \E ok \in BOOLEAN : WriteLeads(ok)

SpecMain == Init /\ [][NextMain]_vars

(***************************************************************************)
(* C14: main exits with status 1 when SERPAPI_API_KEY or GROQ_API_KEY is   *)
(* missing or when an error reaches main().catch, and with status 0 in     *)
(* every other run: the leads written, no place listed, or no place        *)
(* accepted.                                                               *)
(***************************************************************************)
Exited == app.pc = "exited"
MissingCredential == ~app.serpApiKey \/ ~app.groqApiKey
ListingReturned == app.pc # "init" /\ r.pc = "returned"

ErrorPropagated ==
    \/ r.pc \in {"thrown", "exhausted"}
    \/ ListingReturned /\ r.value.error
    \/ app.listing = "results" /\ ~ValidConcurrency(app.concurrency)
    \/ pc = "thrown"
    \/ app.written = "failed"

NoResults(resp) == ~resp.hasLocalResults \/ resp.local_results = 0
NothingClassified == pc = "idle" /\ unit = << >> /\ places = 0

C15_ErrorFieldIsNotEmptyResult ==
    ListingReturned =>
        /\ r.value.error =>
              /\ Exited /\ app.exitCode = 1
              /\ app.listing = "error"
              /\ NothingClassified
        /\ (~r.value.error /\ NoResults(r.value)) =>
              /\ Exited /\ app.exitCode = 0
              /\ app.listing = "empty"
              /\ NothingClassified

\* an error response that also carries results
C15_Witness ==
    /\ ListingReturned
    /\ r.value.error
    /\ r.value.hasLocalResults /\ r.value.local_results > 0
    /\ Exited /\ app.exitCode = 1
    /\ ValidConcurrency(app.concurrency)

(***************************************************************************)
(* C27: getJson is invoked at most 3 times in a run, and only after a      *)
(* thrown error is it invoked again: a response that is returned with a    *)
(* non-empty error field fails the run after withRetry has returned, with  *)
(* no further call.                                                        *)
(***************************************************************************)
C27_ListingCalls ==
    app.pc # "init" =>
        /\ r.calls <= 3
        /\ r.calls = r.waits + (IF r.pc \in {"idle", "wait"} THEN 0 ELSE 1)
        /\ r.warns = r.waits
        /\ r.pc = "thrown" => r.calls = 3 /\ Exited /\ app.exitCode = 1
        /\ (ListingReturned /\ r.value.error) =>
              /\ r.value.id = r.calls
              /\ Exited /\ app.exitCode = 1

\* an error response at the second call, after one thrown error
C27_Witness ==
    /\ ListingReturned
    /\ r.value.error
    /\ r.calls = 2
    /\ r.waits = 1
    /\ Exited

(***************************************************************************)
(* SpecScript: classifyPlaces on a batch whose answers are planned.  The   *)
(* script gives each place its answers: an accepting verdict, a rejecting  *)
(* verdict, one network failure and then an accepting verdict (flaky), or  *)
(* network failures only (fails).  settleLog records the order in which    *)
(* the places settle.  The scripts are all those of up to MaxPlacesScript  *)
(* places and the arrangements of the five-place scenario.                 *)
(***************************************************************************)
MaxPlacesScript == 2

AnswerKinds == {"accept", "reject", "flaky", "fails"}
ScenarioAnswers == << "reject", "reject", "flaky", "accept", "accept" >>

Count(s, kind) == Cardinality({ i \in DOMAIN s : s[i] = kind })
IsArrangement(s, t) ==
    /\ Len(s) = Len(t)
    /\ \A kind \in AnswerKinds : Count(s, kind) = Count(t, kind)

Scripts ==
    UNION { [1..n -> AnswerKinds] : n \in 0..MaxPlacesScript }
    \cup { s \in [1..Len(ScenarioAnswers) -> {"accept", "reject", "flaky"}] :
             IsArrangement(s, ScenarioAnswers) }

\* place i is appended when this step settles it
Logs(i) ==
    settleLog' = IF Settled(unit'[i]) /\ ~Settled(unit[i])
                 THEN Append(settleLog, i)
                 ELSE settleLog

ClassifyScripted(s, c) ==
    /\ ClassifyPlaces(Len(s), c)
    /\ script' = s
    /\ settleLog' = << >>
    /\ UNCHANGED << mainVars, phoneVars >>

ScriptedPacing(i) ==
    /\ PacingElapsed(i)
    /\ Logs(i)
    /\ UNCHANGED << script, mainVars, phoneVars >>

\* the chat-completion call of place i completes as its script says
ScriptedAnswer(i) ==
    /\ i \in 1..Len(script)
    /\ CASE script[i] = "accept" -> ApiResolves(i, "accept")
         [] script[i] = "reject" -> ApiResolves(i, "reject")
         [] script[i] = "flaky" ->
               IF unit[i].w.calls = 1
               THEN ApiRejects(i, NetworkError)
               ELSE ApiResolves(i, "accept")
         [] OTHER -> ApiRejects(i, NetworkError)
    /\ Logs(i)
    /\ UNCHANGED << script, mainVars, phoneVars >>

ScriptedBackoff(i) ==
    /\ BackoffElapsed(i)
    /\ Logs(i)
    /\ UNCHANGED << script, mainVars, phoneVars >>

ScriptPlaces == 1..Len(ScenarioAnswers)

NextScript ==
    \/ \E s \in Scripts, c \in 1..MaxConcurrency : ClassifyScripted(s, c)
    \/ \E i \in ScriptPlaces : ScriptedPacing(i)
    \/ \E i \in ScriptPlaces : ScriptedAnswer(i)
    \/ \E i \in ScriptPlaces : ScriptedBackoff(i)

SpecScript == Init /\ [][NextScript]_vars

(***************************************************************************)
(* C11: the accepted list is in submission order, not completion order:    *)
(* for given places and given answers per place, whatever the order in     *)
(* which the places settle and whatever the concurrency limit, the list    *)
(* returned is the same subsequence of the batch.                          *)
(***************************************************************************)
Accepting(kind) == kind \in {"accept", "flaky"}

\* the places of the script with an accepting verdict, in batch order
ExpectedAccepted(s) ==
    SelectSeq([i \in 1..Len(s) |-> i], LAMBDA i : Accepting(s[i]))

C11_SubmissionOrder ==
    pc = "returned" =>
        /\ accepted = ExpectedAccepted(script)
        /\ \A a, b \in 1..Len(accepted) : a < b => accepted[a] < accepted[b]

\* two accepted places of which the later one in the batch settled first
C11_Witness ==
    /\ pc = "returned"
    /\ concurrency > 1
    /\ \E a, b \in 1..Len(settleLog) :
          /\ a < b
          /\ settleLog[a] > settleLog[b]
          /\ Accepting(script[settleLog[a]])
          /\ Accepting(script[settleLog[b]])
    /\ Len(accepted) >= 2

(***************************************************************************)
(* C17: five places classified with concurrency 2, of which two get a      *)
(* rejecting verdict, one fails once and then gets an accepting verdict,   *)
(* and two get an accepting verdict at once: under every interleaving      *)
(* classifyPlaces returns exactly 3 accepted places, all 5 places have an  *)
(* outcome, and exactly one retry warning is logged.                       *)
(***************************************************************************)
InScenario ==
    /\ pc # "idle"
    /\ IsArrangement(script, ScenarioAnswers)
    /\ concurrency = 2

RECURSIVE WarnsUpTo(_)
WarnsUpTo(k) == IF k = 0 THEN 0 ELSE WarnsUpTo(k - 1) + unit[k].w.warns

C17_Scenario ==
    InScenario =>
        /\ WarnsUpTo(places) <= 1
        /\ pc # "thrown"
        /\ pc = "returned" =>
              /\ Len(accepted) = 3
              /\ places = 5 /\ Len(results) = 5
              /\ \A i \in 1..places : Settled(unit[i]) /\ unit[i].settles = 1
              /\ Cardinality({ i \in 1..places : unit[i].st = "fulfilled" }) = 5
              /\ WarnsUpTo(places) = 1

\* the scenario returned with the flaky place last in the batch: it was
\* called twice, and another place settled after it
C17_Witness ==
    /\ InScenario
    /\ pc = "returned"
    /\ script[5] = "flaky"
    /\ unit[5].w.calls = 2
    /\ settleLog[5] # 5
    /\ Len(accepted) = 3

(***************************************************************************)
(* C22: no chat-completion call is made for a place before it was admitted *)
(* to a slot and its pacing wait has elapsed; the pacing wait happens once *)
(* per place, before the first attempt, and not again before a retry.      *)
(***************************************************************************)
Calls(u) == u.w.calls

PacedOnce(i) ==
    /\ unit[i].st \in {"queued", "pacing"} => Calls(unit[i]) = 0
    /\ unit'[i].st = "pacing" => unit[i].st \in {"queued", "pacing"}
    /\ Calls(unit'[i]) > Calls(unit[i]) =>
          /\ WasAdmitted(i)
          /\ Calls(unit'[i]) = Calls(unit[i]) + 1
          /\ \/ unit[i].st = "pacing" /\ Calls(unit[i]) = 0
             \/ unit[i].st = "retry" /\ unit[i].w.pc = "wait"

C22_PacingOncePerPlace ==
    [][\A i \in 1..places : PacedOnce(i)]_vars

\* a place waiting to be admitted while another makes its second call
C22_Witness ==
    /\ places >= 3
    /\ concurrency = 2
    /\ unit[1].st = "retry" /\ unit[1].w.pc = "call" /\ Calls(unit[1]) = 2
    /\ unit[2].st = "pacing"
    /\ unit[3].st = "queued"

(***************************************************************************)
(* C25: a place holds its slot from admission to its outcome, through the  *)
(* pacing wait and every backoff wait; the slot is released once per       *)
(* place, on success as on failure, so the counter of places in flight is  *)
(* never negative, never above C, and 0 when classifyPlaces returns.       *)
(***************************************************************************)
HoldsSlot(u) == u.st = "pacing" \/ u.st = "retry"

C25_SlotHeldUntilOutcome ==
    /\ activeCount = Cardinality({ i \in 1..places : HoldsSlot(unit[i]) })
    /\ activeCount >= 0
    /\ activeCount <= concurrency
    /\ \A i \in 1..places :
          /\ unit[i].settles = (IF Settled(unit[i]) THEN 1 ELSE 0)
          /\ WasAdmitted(i) <=> unit[i].st # "queued"
    /\ Len(admitLog) = activeCount
                       + Cardinality({ i \in 1..places : Settled(unit[i]) })
    /\ pc = "returned" => activeCount = 0 /\ Len(queue) = 0

\* returned after a place failed and a place behind it in the queue succeeded
C25_Witness ==
    /\ pc = "returned"
    /\ activeCount = 0
    /\ places = 2
    /\ concurrency = 1
    /\ unit[1].st = "rejected" /\ unit[1].w.waits = 4
    /\ unit[2].st = "fulfilled"

====
